---------------------------- MODULE Spec2Model ----------------------------
(***************************************************************************)
(* Model of src/src/visual_width.py: VisualWidth._get_char_width (the      *)
(* per-character width classifier) and VisualWidth.calc (the aggregation,  *)
(* the round-up to one decimal place, and the lru_cache in front of it).   *)
(*                                                                         *)
(* Python floats are IEEE-754 binary64.  They are modelled exactly: a      *)
(* float is a fixed-point number <<h, a, b, c>> that stands for            *)
(*     h + a/2^18 + b/2^36 + c/2^54,   0 <= a, b, c < 2^18,                *)
(* and every arithmetic operation computes the exact result and then       *)
(* rounds it to 53 significant bits, ties to even, as the hardware does.   *)
(* Every non-zero value the program forms lies in [0.25, 2^9), where the   *)
(* spacing of binary64 numbers is a multiple of 2^-54, so the fixed-point  *)
(* grid holds each of them exactly.                                        *)
(***************************************************************************)
EXTENDS Integers, Sequences, FiniteSets

VARIABLES
    pool,         \* the texts the host application passes to calc
    callers,      \* the threads that call calc
    cache,        \* lru_cache: <<key, result>> entries, least recently used first
    pc,           \* per thread: position inside a call of calc
    text,         \* per thread: the argument of the call
    idx,          \* per thread: position of the for loop in text
    char_width,   \* per thread: the last value _get_char_width returned
    total_width,  \* per thread: the running total
    result,       \* per thread: the value the body of calc returned
    ret           \* per thread: the value the call returned to the host

vars == <<pool, callers, cache, pc, text, idx, char_width, total_width, result, ret>>

---------------------------------------------------------------------------
(* Bounds of the model. *)

\* Longest text built from Alphabet.
MaxLen == 3

\* lru_cache(maxsize=10000), scaled down so that the cache fills and evicts.
maxsize == 2

Threads == {1, 2}

---------------------------------------------------------------------------
(* binary64 arithmetic. *)

B == 2 ^ 18

Zero == <<0, 0, 0, 0>>

\* Carry propagation: the fixed-point number with the given limb values.
Norm(h, a, b, c) ==
    LET b1 == b + (c \div B)
        a1 == a + (b1 \div B)
    IN  <<h + (a1 \div B), a1 % B, b1 % B, c % B>>

FxAdd(x, y) == Norm(x[1] + y[1], x[2] + y[2], x[3] + y[3], x[4] + y[4])

FxMul10(x) == Norm(10 * x[1], 10 * x[2], 10 * x[3], 10 * x[4])

FxLess(x, y) ==
    \/ x[1] < y[1]
    \/ x[1] = y[1] /\ x[2] < y[2]
    \/ x[1] = y[1] /\ x[2] = y[2] /\ x[3] < y[3]
    \/ x[1] = y[1] /\ x[2] = y[2] /\ x[3] = y[3] /\ x[4] < y[4]

FxLeq(x, y) == x = y \/ FxLess(x, y)

\* The integer n as a fixed-point number.
FxInt(n) == <<n, 0, 0, 0>>

RECURSIVE Pow2Floor(_)
\* The largest power of two that is <= n, for n >= 1.
Pow2Floor(n) == IF n < 2 THEN 1 ELSE 2 * Pow2Floor(n \div 2)

\* The spacing of binary64 numbers at x, in units of 2^-54: a value in
\* [2^k, 2^(k+1)) has 52 bits after its leading bit.
Ulp(x) ==
    IF x[1] > 0 THEN 4 * Pow2Floor(x[1])
    ELSE IF x[2] >= B \div 2 THEN 2
    ELSE 1

\* Round x + (rem/d) * 2^-54, with 0 <= rem < d, to the nearest binary64
\* number, ties to the even mantissa.
RoundNearestEven(x, rem, d) ==
    LET u    == Ulp(x)
        r    == x[4] % u
        twice == 2 * (r * d + rem)
        odd  == (x[4] \div u) % 2 = 1
        up   == twice > u * d \/ (twice = u * d /\ odd)
    IN  Norm(x[1], x[2], x[3], x[4] - r + (IF up THEN u ELSE 0))

\* float + float
FAdd(x, y) == RoundNearestEven(FxAdd(x, y), 0, 1)

\* float * 10
FMul10(x) == RoundNearestEven(FxMul10(x), 0, 1)

\* int / int (true division), and the value of a decimal literal n/d:
\* the binary64 number nearest to the quotient.  Exact for a quotient that
\* is 0 or at least 0.25; a smaller one is rounded to the 2^-54 grid.
FDiv(n, d) ==
    LET h  == n \div d
        r0 == n % d
        a  == (r0 * B) \div d
        r1 == (r0 * B) % d
        b  == (r1 * B) \div d
        r2 == (r1 * B) % d
        c  == (r2 * B) \div d
        r3 == (r2 * B) % d
    IN  RoundNearestEven(<<h, a, b, c>>, r3, d)

\* math.ceil(x), a Python int.
Ceil(x) == x[1] + (IF x[2] + x[3] + x[4] > 0 THEN 1 ELSE 0)

---------------------------------------------------------------------------
(* Characters.  A character is <<code point, East Asian Width, General     *)
(* Category>>: the code point with the two properties unicodedata reports  *)
(* for it (Unicode 14.0.0 database).                                       *)

ord(char) == char[1]

\* unicodedata.east_asian_width(char)
east_asian_width(char) == char[2]

\* unicodedata.category(char)
category_of(char) == char[3]

\* Every ASCII character.
AsciiChars ==
    { <<0, "N", "Cc">>, <<1, "N", "Cc">>, <<2, "N", "Cc">>, <<3, "N", "Cc">>,
      <<4, "N", "Cc">>, <<5, "N", "Cc">>, <<6, "N", "Cc">>, <<7, "N", "Cc">>,
      <<8, "N", "Cc">>, <<9, "N", "Cc">>, <<10, "N", "Cc">>, <<11, "N", "Cc">>,
      <<12, "N", "Cc">>, <<13, "N", "Cc">>, <<14, "N", "Cc">>, <<15, "N", "Cc">>,
      <<16, "N", "Cc">>, <<17, "N", "Cc">>, <<18, "N", "Cc">>, <<19, "N", "Cc">>,
      <<20, "N", "Cc">>, <<21, "N", "Cc">>, <<22, "N", "Cc">>, <<23, "N", "Cc">>,
      <<24, "N", "Cc">>, <<25, "N", "Cc">>, <<26, "N", "Cc">>, <<27, "N", "Cc">>,
      <<28, "N", "Cc">>, <<29, "N", "Cc">>, <<30, "N", "Cc">>, <<31, "N", "Cc">>,
      <<32, "Na", "Zs">>, <<33, "Na", "Po">>, <<34, "Na", "Po">>, <<35, "Na", "Po">>,
      <<36, "Na", "Sc">>, <<37, "Na", "Po">>, <<38, "Na", "Po">>, <<39, "Na", "Po">>,
      <<40, "Na", "Ps">>, <<41, "Na", "Pe">>, <<42, "Na", "Po">>, <<43, "Na", "Sm">>,
      <<44, "Na", "Po">>, <<45, "Na", "Pd">>, <<46, "Na", "Po">>, <<47, "Na", "Po">>,
      <<48, "Na", "Nd">>, <<49, "Na", "Nd">>, <<50, "Na", "Nd">>, <<51, "Na", "Nd">>,
      <<52, "Na", "Nd">>, <<53, "Na", "Nd">>, <<54, "Na", "Nd">>, <<55, "Na", "Nd">>,
      <<56, "Na", "Nd">>, <<57, "Na", "Nd">>, <<58, "Na", "Po">>, <<59, "Na", "Po">>,
      <<60, "Na", "Sm">>, <<61, "Na", "Sm">>, <<62, "Na", "Sm">>, <<63, "Na", "Po">>,
      <<64, "Na", "Po">>, <<65, "Na", "Lu">>, <<66, "Na", "Lu">>, <<67, "Na", "Lu">>,
      <<68, "Na", "Lu">>, <<69, "Na", "Lu">>, <<70, "Na", "Lu">>, <<71, "Na", "Lu">>,
      <<72, "Na", "Lu">>, <<73, "Na", "Lu">>, <<74, "Na", "Lu">>, <<75, "Na", "Lu">>,
      <<76, "Na", "Lu">>, <<77, "Na", "Lu">>, <<78, "Na", "Lu">>, <<79, "Na", "Lu">>,
      <<80, "Na", "Lu">>, <<81, "Na", "Lu">>, <<82, "Na", "Lu">>, <<83, "Na", "Lu">>,
      <<84, "Na", "Lu">>, <<85, "Na", "Lu">>, <<86, "Na", "Lu">>, <<87, "Na", "Lu">>,
      <<88, "Na", "Lu">>, <<89, "Na", "Lu">>, <<90, "Na", "Lu">>, <<91, "Na", "Ps">>,
      <<92, "Na", "Po">>, <<93, "Na", "Pe">>, <<94, "Na", "Sk">>, <<95, "Na", "Pc">>,
      <<96, "Na", "Sk">>, <<97, "Na", "Ll">>, <<98, "Na", "Ll">>, <<99, "Na", "Ll">>,
      <<100, "Na", "Ll">>, <<101, "Na", "Ll">>, <<102, "Na", "Ll">>, <<103, "Na", "Ll">>,
      <<104, "Na", "Ll">>, <<105, "Na", "Ll">>, <<106, "Na", "Ll">>, <<107, "Na", "Ll">>,
      <<108, "Na", "Ll">>, <<109, "Na", "Ll">>, <<110, "Na", "Ll">>, <<111, "Na", "Ll">>,
      <<112, "Na", "Ll">>, <<113, "Na", "Ll">>, <<114, "Na", "Ll">>, <<115, "Na", "Ll">>,
      <<116, "Na", "Ll">>, <<117, "Na", "Ll">>, <<118, "Na", "Ll">>, <<119, "Na", "Ll">>,
      <<120, "Na", "Ll">>, <<121, "Na", "Ll">>, <<122, "Na", "Ll">>, <<123, "Na", "Ps">>,
      <<124, "Na", "Sm">>, <<125, "Na", "Pe">>, <<126, "Na", "Sm">>, <<127, "N", "Cc">> }

\* One character of every class of non-ASCII code points that the tests of
\* _get_char_width can tell apart (the same code-point ranges, the same East
\* Asian Width, the same category among Mn Mc Me Cc Cf Lu Nd / any other),
\* and the characters the examples use.
UnicodeChars ==
    { <<128, "N", "Cc">>, <<160, "N", "Zs">>, <<161, "A", "Po">>, <<162, "Na", "Sc">>,
      <<173, "A", "Cf">>, <<192, "N", "Lu">>, <<198, "A", "Lu">>, <<256, "N", "Lu">>,
      <<257, "A", "Ll">>, <<259, "N", "Ll">>, <<294, "A", "Lu">>, <<768, "A", "Mn">>,
      <<769, "A", "Mn">>, <<880, "N", "Lu">>, <<881, "N", "Ll">>, <<888, "F", "Cn">>,
      <<913, "A", "Lu">>, <<945, "A", "Ll">>, <<1024, "N", "Lu">>, <<1025, "A", "Lu">>,
      <<1040, "A", "Lu">>, <<1072, "A", "Ll">>, <<1104, "N", "Ll">>, <<1155, "N", "Mn">>,
      <<1160, "N", "Me">>, <<1328, "F", "Cn">>, <<1424, "F", "Cn">>, <<1425, "N", "Mn">>,
      <<1470, "N", "Pd">>, <<1536, "N", "Cf">>, <<1542, "N", "Sm">>, <<1552, "N", "Mn">>,
      <<1575, "N", "Lo">>, <<1632, "N", "Nd">>, <<1807, "N", "Cf">>, <<1809, "N", "Mn">>,
      <<1984, "N", "Nd">>, <<2304, "N", "Mn">>, <<2307, "N", "Mc">>, <<2308, "N", "Lo">>,
      <<2406, "N", "Nd">>, <<2434, "N", "Mc">>, <<3584, "F", "Cn">>, <<3585, "N", "Lo">>,
      <<3633, "N", "Mn">>, <<3664, "N", "Nd">>, <<4352, "W", "Lo">>, <<4448, "N", "Lo">>,
      <<6846, "N", "Me">>, <<8361, "H", "Sc">>, <<8986, "W", "So">>, <<9728, "N", "So">>,
      <<9733, "A", "So">>, <<9748, "W", "So">>, <<9984, "N", "So">>, <<9989, "W", "So">>,
      <<10045, "A", "So">>, <<12272, "W", "So">>, <<12284, "F", "Cn">>, <<12288, "F", "Zs">>,
      <<12289, "W", "Po">>, <<12330, "W", "Mn">>, <<12334, "W", "Mc">>, <<12351, "N", "So">>,
      <<12352, "F", "Cn">>, <<12353, "W", "Lo">>, <<12441, "W", "Mn">>, <<12448, "W", "Pd">>,
      <<12544, "F", "Cn">>, <<12549, "W", "Lo">>, <<12592, "F", "Cn">>, <<12593, "W", "Lo">>,
      <<13312, "W", "Lo">>, <<19968, "W", "Lo">>, <<20013, "W", "Lo">>, <<25991, "W", "Lo">>,
      <<43360, "W", "Lo">>, <<43389, "F", "Cn">>, <<44032, "W", "Lo">>, <<55204, "F", "Cn">>,
      <<55216, "N", "Lo">>, <<55239, "F", "Cn">>, <<57344, "A", "Co">>, <<63744, "W", "Lo">>,
      <<64110, "F", "Cn">>, <<65072, "W", "Po">>, <<65104, "W", "Po">>, <<65107, "F", "Cn">>,
      <<65280, "F", "Cn">>, <<65296, "F", "Nd">>, <<65313, "F", "Lu">>, <<65377, "H", "Po">>,
      <<94180, "W", "Mn">>, <<94192, "W", "Mc">>, <<127744, "W", "So">>, <<127777, "N", "So">>,
      <<128512, "W", "So">>, <<128640, "W", "So">>, <<128710, "N", "So">>, <<128728, "F", "Cn">>,
      <<129280, "N", "So">>, <<129292, "W", "So">>, <<131072, "W", "Lo">>, <<173824, "W", "Lo">>,
      <<177977, "F", "Cn">>, <<177984, "W", "Lo">>, <<178206, "F", "Cn">>, <<178208, "W", "Lo">>,
      <<183970, "F", "Cn">>, <<183984, "W", "Lo">>, <<191457, "F", "Cn">>, <<191472, "F", "Cn">>,
      <<194560, "W", "Lo">>, <<195102, "F", "Cn">>, <<196608, "W", "Lo">>, <<201547, "F", "Cn">>,
      <<201552, "F", "Cn">> }

Chars == AsciiChars \cup UnicodeChars

\* The character with the given code point.
Chr(code) == CHOOSE char \in Chars : ord(char) = code

---------------------------------------------------------------------------
(* VisualWidth._get_char_width *)

\* {"i", "l", "I", "!", "|", "'", "`", ".", ",", ":", ";"}
VERY_NARROW_CHARS == {105, 108, 73, 33, 124, 39, 96, 46, 44, 58, 59}

\* {"f", "j", "t", "r", "(", ")", "[", "]", "{", "}", '"', "/", "\\", "-"}
NARROW_CHARS == {102, 106, 116, 114, 40, 41, 91, 93, 123, 125, 34, 47, 92, 45}

\* {"m", "w", "M", "W", "@", "#", "%", "&", "*", "+", "="}
WIDE_CHARS == {109, 119, 77, 87, 64, 35, 37, 38, 42, 43, 61}

\* str.isdigit() of an ASCII character: "0".."9"
isdigit(code) == code \in 48..57

\* str.isupper() of an ASCII character: "A".."Z"
isupper(code) == code \in 65..90

\* The upper-case test tried first, for every upper-case letter.
ascii_width_upper_first(code) ==
    IF isupper(code) THEN FDiv(115, 100)
    ELSE IF code \in VERY_NARROW_CHARS THEN FDiv(4, 10)
    ELSE IF code \in NARROW_CHARS THEN FDiv(6, 10)
    ELSE IF code \in WIDE_CHARS THEN FDiv(13, 10)
    ELSE IF isdigit(code) THEN FDiv(9, 10)
    ELSE IF code = 32 THEN FDiv(3, 10)
    ELSE IF code = 9 THEN FxInt(2)
    ELSE FxInt(1)

\* The ASCII fast path; code = ord(char) < 128.
ascii_width(code) ==
    IF code \in VERY_NARROW_CHARS THEN FDiv(4, 10)
    ELSE IF code \in NARROW_CHARS THEN FDiv(6, 10)
    ELSE IF code \in WIDE_CHARS THEN FDiv(13, 10)
    ELSE IF isdigit(code) THEN FDiv(9, 10)
    ELSE IF code = 32 THEN FDiv(3, 10)
    ELSE IF code = 9 THEN FxInt(2)
    ELSE IF isupper(code) /\ code \notin {73, 77, 87} THEN FDiv(115, 100)
    ELSE FxInt(1)

\* Zero-width characters: category in ("Mn", "Mc", "Me", "Cc", "Cf")
is_zero_width_no_Mn(category) == category \in {"Mc", "Me", "Cc", "Cf"}

is_zero_width(category) == category \in {"Mn", "Mc", "Me", "Cc", "Cf"}

\* The code-point ranges that return 2.0, in the order of the source.
is_wide_range(code) ==
    \/ \H4E00 <= code /\ code <= \H9FFF        \* CJK Unified Ideographs
    \/ \H3400 <= code /\ code <= \H4DBF        \* Extension A
    \/ \H20000 <= code /\ code <= \H2A6DF      \* Extension B
    \/ \H2A700 <= code /\ code <= \H2B73F      \* Extension C
    \/ \H2B740 <= code /\ code <= \H2B81F      \* Extension D
    \/ \H2B820 <= code /\ code <= \H2CEAF      \* Extension E
    \/ \H2CEB0 <= code /\ code <= \H2EBEF      \* Extension F
    \/ \H2EBF0 <= code /\ code <= \H2EE5F      \* Extension I
    \/ \H30000 <= code /\ code <= \H3134F      \* Extension G
    \/ \H31350 <= code /\ code <= \H323AF      \* Extension H
    \/ \HF900 <= code /\ code <= \HFAFF        \* CJK Compatibility Ideographs
    \/ \H2F800 <= code /\ code <= \H2FA1F      \* ... Supplement
    \/ \H3100 <= code /\ code <= \H312F        \* Bopomofo
    \/ \H3040 <= code /\ code <= \H309F        \* Hiragana
    \/ \H30A0 <= code /\ code <= \H30FF        \* Katakana
    \/ \HAC00 <= code /\ code <= \HD7AF        \* Hangul syllables
    \/ \H1100 <= code /\ code <= \H11FF        \* Hangul jamo
    \/ \H3130 <= code /\ code <= \H318F        \* Hangul compatibility jamo
    \/ \HA960 <= code /\ code <= \HA97F        \* Hangul jamo extended-A
    \/ \HD7B0 <= code /\ code <= \HD7FF        \* Hangul jamo extended-B
    \/ \H3000 <= code /\ code <= \H303F        \* CJK symbols and punctuation
    \/ \HFF00 <= code /\ code <= \HFFEF        \* Halfwidth and fullwidth forms
    \/ \HFE30 <= code /\ code <= \HFE4F        \* CJK compatibility forms
    \/ \HFE50 <= code /\ code <= \HFE6F        \* Small form variants
    \/ \H2FF0 <= code /\ code <= \H2FFF        \* Ideographic description
    \/ \H1F300 <= code /\ code <= \H1F6FF      \* Misc symbols and pictographs
    \/ \H1F900 <= code /\ code <= \H1F9FF      \* Supplemental symbols
    \/ \H1F600 <= code /\ code <= \H1F64F      \* Emoticons
    \/ \H1F680 <= code /\ code <= \H1F6FF      \* Transport and map symbols
    \/ \H2600 <= code /\ code <= \H26FF        \* Miscellaneous symbols
    \/ \H2700 <= code /\ code <= \H27BF        \* Dingbats

\* The branch "if ea_width == 'A'".
ambiguous_width(code, category) ==
    IF \H0370 <= code /\ code <= \H03FF
    THEN (IF category = "Lu" THEN FDiv(11, 10) ELSE FxInt(1))
    ELSE IF \H0400 <= code /\ code <= \H04FF
    THEN (IF category = "Lu" THEN FDiv(115, 100) ELSE FxInt(1))
    ELSE IF \H0100 <= code /\ code <= \H017F
    THEN (IF category = "Lu" THEN FDiv(11, 10) ELSE FxInt(1))
    ELSE FxInt(1)

\* Script ranges, the remaining categories, and the default width.
other_width_typo(code, category) ==
    IF \H0600 <= code /\ code <= \H06FF THEN FDiv(8, 10)
    ELSE IF \H0590 <= code /\ code <= \H05FF THEN FDiv(9, 10)
    ELSE IF \H0E00 <= code /\ code <= \H0E7F THEN FDiv(9, 10)
    ELSE IF \H0900 <= code /\ code <= \H097F THEN FDiv(9, 10)
    ELSE IF category = "Lu" THEN FDiv(11, 10)
    ELSE IF category = "Nd" THEN FDiv(9, 10)
    ELSE FDiv(105, 100)

other_width(code, category) ==
    IF \H0600 <= code /\ code <= \H06FF THEN FDiv(8, 10)
    ELSE IF \H0590 <= code /\ code <= \H05FF THEN FDiv(9, 10)
    ELSE IF \H0E00 <= code /\ code <= \H0E7F THEN FDiv(9, 10)
    ELSE IF \H0900 <= code /\ code <= \H097F THEN FDiv(9, 10)
    ELSE IF category = "Lu" THEN FDiv(11, 10)
    ELSE IF category = "Nd" THEN FDiv(9, 10)
    ELSE FxInt(1)

\* The same tests with the code-point ranges tried before the Halfwidth test.
get_char_width_ranges_first(char) ==
    LET code     == ord(char)
        ea_width == east_asian_width(char)
        category == category_of(char)
    IN  IF char = <<>> THEN Zero
        ELSE IF code < 128 THEN ascii_width(code)
        ELSE IF ea_width \in {"F", "W"} THEN FxInt(2)
        ELSE IF is_wide_range(code) THEN FxInt(2)
        ELSE IF ea_width = "H" THEN FxInt(1)
        ELSE IF is_zero_width(category) THEN Zero
        ELSE IF ea_width = "A" THEN ambiguous_width(code, category)
        ELSE other_width(code, category)

get_char_width(char) ==
    LET code     == ord(char)
        ea_width == east_asian_width(char)
        category == category_of(char)
    IN  IF char = <<>> THEN Zero
        ELSE IF code < 128 THEN ascii_width(code)
        ELSE IF ea_width \in {"F", "W"} THEN FxInt(2)
        ELSE IF ea_width = "H" THEN FxInt(1)
        ELSE IF is_zero_width(category) THEN Zero
        ELSE IF is_wide_range(code) THEN FxInt(2)
        ELSE IF ea_width = "A" THEN ambiguous_width(code, category)
        ELSE other_width(code, category)

---------------------------------------------------------------------------
(* VisualWidth.calc, without the cache *)

RECURSIVE accumulate(_, _)
\* total_width after the first k iterations of "for char in text".
accumulate(s, k) ==
    IF k = 0 THEN Zero
    ELSE FAdd(accumulate(s, k - 1), get_char_width(s[k]))

\* math.ceil(total_width * 10) / 10
round_up(total) == FDiv(Ceil(FMul10(total)), 10)

\* The body of calc: what a call computes when the cache does not answer.
calc_uncached(s) ==
    IF s = <<>> THEN Zero ELSE round_up(accumulate(s, Len(s)))

---------------------------------------------------------------------------
(* functools.lru_cache(maxsize) around calc *)

cache_keys == {cache[k][1] : k \in DOMAIN cache}

\* The position of key s in the cache.
cache_index(s) == CHOOSE k \in DOMAIN cache : cache[k][1] = s

\* A hit answers with the newest entry instead of the entry of the key.
cache_lookup_newest(s) == cache[Len(cache)][2]

\* The result stored under key s.
cache_lookup(s) == cache[cache_index(s)][2]

\* A hit makes the entry the most recently used one.
cache_touch(s) ==
    LET k == cache_index(s)
    IN  SubSeq(cache, 1, k - 1) \o SubSeq(cache, k + 1, Len(cache)) \o <<cache[k]>>

\* The entry is filed under the text of thread 1, whoever computed it.
cache_insert_shared_key(t) ==
    IF text[1] \in cache_keys THEN cache
    ELSE IF Len(cache) >= maxsize THEN Append(Tail(cache), <<text[1], result[t]>>)
    ELSE Append(cache, <<text[1], result[t]>>)

\* After the call: the key may have been added meanwhile by another thread;
\* a full cache drops its least recently used entry.
cache_insert(t) ==
    IF text[t] \in cache_keys THEN cache
    ELSE IF Len(cache) >= maxsize THEN Append(Tail(cache), <<text[t], result[t]>>)
    ELSE Append(cache, <<text[t], result[t]>>)

---------------------------------------------------------------------------
(* Inputs *)

Seqs(S, n) == UNION {[1..k -> S] : k \in 0..n}

\* The text with the given code points.
Str(codes) == [k \in DOMAIN codes |-> Chr(codes[k])]

\* "i", "f", "m", " ", "5", "a", "A", U+0301 COMBINING ACUTE ACCENT,
\* U+3099 COMBINING KATAKANA-HIRAGANA VOICED SOUND MARK
Alphabet == {Chr(105), Chr(102), Chr(109), Chr(32), Chr(53), Chr(97), Chr(65),
             Chr(\H0301), Chr(\H3099)}

\* "Hi!" and the two ideographs U+4E2D U+6587
Examples == {Str(<<72, 105, 33>>), Str(<<\H4E2D, \H6587>>)}

\* A base letter followed by one character, for every character.
Pairs == {<<Chr(97), c>> : c \in UnicodeChars}

Texts == Seqs(Alphabet, MaxLen) \cup {<<c>> : c \in Chars} \cup Pairs \cup Examples

\* "", "i", "il", "ill", "A"
CachePool == {<<>>, Str(<<105>>), Str(<<105, 108>>), Str(<<105, 108, 108>>), Str(<<65>>)}

\* "", "il", "A"
ConcPool == {<<>>, Str(<<105, 108>>), Str(<<65>>)}

---------------------------------------------------------------------------
(* The state machine *)

InitCall ==
    /\ cache = <<>>
    /\ pc = [t \in Threads |-> "idle"]
    /\ text = [t \in Threads |-> <<>>]
    /\ idx = [t \in Threads |-> 1]
    /\ char_width = [t \in Threads |-> Zero]
    /\ total_width = [t \in Threads |-> Zero]
    /\ result = [t \in Threads |-> Zero]
    /\ ret = [t \in Threads |-> Zero]

\* One caller, one text: calc as a function of its argument.
Init == pool \in {{s} : s \in Texts} /\ callers = {1} /\ InitCall

\* One caller, several texts, a cache that overflows.
InitCache == pool = CachePool /\ callers = {1} /\ InitCall

\* Several callers sharing the cache.
InitConc == pool = ConcPool /\ callers = Threads /\ InitCall

\* calc(s) is answered from the cache.
CacheHit(t) ==
    /\ pc[t] \in {"idle", "done"}
    /\ \E s \in pool :
        /\ s \in cache_keys
        /\ text' = [text EXCEPT ![t] = s]
        /\ ret' = [ret EXCEPT ![t] = cache_lookup(s)]
        /\ cache' = cache_touch(s)
    /\ pc' = [pc EXCEPT ![t] = "done"]
    /\ UNCHANGED <<pool, callers, idx, char_width, total_width, result>>

\* calc(s) is not in the cache: the wrapper calls the body.
CacheMiss(t) ==
    /\ pc[t] \in {"idle", "done"}
    /\ \E s \in pool :
        /\ s \notin cache_keys
        /\ text' = [text EXCEPT ![t] = s]
    /\ pc' = [pc EXCEPT ![t] = "body"]
    /\ UNCHANGED <<pool, callers, cache, idx, char_width, total_width, result, ret>>

\* if not text: return 0.0
EmptyText(t) ==
    /\ pc[t] = "body"
    /\ text[t] = <<>>
    /\ result' = [result EXCEPT ![t] = Zero]
    /\ pc' = [pc EXCEPT ![t] = "store"]
    /\ UNCHANGED <<pool, callers, cache, text, idx, char_width, total_width, ret>>

\* total_width = 0.0
StartLoop(t) ==
    /\ pc[t] = "body"
    /\ text[t] # <<>>
    /\ total_width' = [total_width EXCEPT ![t] = Zero]
    /\ idx' = [idx EXCEPT ![t] = 1]
    /\ pc' = [pc EXCEPT ![t] = "loop"]
    /\ UNCHANGED <<pool, callers, cache, text, char_width, result, ret>>

\* total_width += VisualWidth._get_char_width(char)
Accumulate(t) ==
    /\ pc[t] = "loop"
    /\ idx[t] <= Len(text[t])
    /\ LET w == get_char_width(text[t][idx[t]])
       IN  /\ char_width' = [char_width EXCEPT ![t] = w]
           /\ total_width' = [total_width EXCEPT ![t] = FAdd(total_width[t], w)]
    /\ idx' = [idx EXCEPT ![t] = idx[t] + 1]
    /\ UNCHANGED <<pool, callers, cache, pc, text, result, ret>>

\* return math.ceil(total_width * 10) / 10
RoundUp(t) ==
    /\ pc[t] = "loop"
    /\ idx[t] > Len(text[t])
    /\ result' = [result EXCEPT ![t] = round_up(total_width[t])]
    /\ pc' = [pc EXCEPT ![t] = "store"]
    /\ UNCHANGED <<pool, callers, cache, text, idx, char_width, total_width, ret>>

\* The wrapper files the result and returns it.
Store(t) ==
    /\ pc[t] = "store"
    /\ cache' = cache_insert(t)
    /\ ret' = [ret EXCEPT ![t] = result[t]]
    /\ pc' = [pc EXCEPT ![t] = "done"]
    /\ UNCHANGED <<pool, callers, text, idx, char_width, total_width, result>>

Next ==
    \E t \in callers :
        \/ CacheHit(t)
        \/ CacheMiss(t)
        \/ EmptyText(t)
        \/ StartLoop(t)
        \/ Accumulate(t)
        \/ RoundUp(t)
        \/ Store(t)

Spec == Init /\ [][Next]_vars

SpecCache == InitCache /\ [][Next]_vars

SpecConc == InitConc /\ [][Next]_vars

---------------------------------------------------------------------------
(* The rule list of the specification, section 4.1, as data: the rules in  *)
(* their stated order, each a condition and a width in hundredths.         *)

InRange(code, lo, hi) == lo <= code /\ code <= hi

\* Step 4: the ranges that are 2.0 wide.
SpecWideRanges ==
    { <<\H4E00, \H9FFF>>,
      <<\H3400, \H4DBF>>, <<\H20000, \H2A6DF>>, <<\H2A700, \H2B73F>>,
      <<\H2B740, \H2B81F>>, <<\H2B820, \H2CEAF>>, <<\H2CEB0, \H2EBEF>>,
      <<\H2EBF0, \H2EE5F>>, <<\H30000, \H3134F>>, <<\H31350, \H323AF>>,
      <<\HF900, \HFAFF>>, <<\H2F800, \H2FA1F>>,
      <<\H3100, \H312F>>,
      <<\H3040, \H309F>>, <<\H30A0, \H30FF>>,
      <<\HAC00, \HD7AF>>, <<\H1100, \H11FF>>, <<\H3130, \H318F>>,
      <<\HA960, \HA97F>>, <<\HD7B0, \HD7FF>>,
      <<\H3000, \H303F>>, <<\HFF00, \HFFEF>>, <<\HFE30, \HFE4F>>, <<\HFE50, \HFE6F>>,
      <<\H2FF0, \H2FFF>>,
      <<\H1F300, \H1F6FF>>, <<\H1F900, \H1F9FF>>, <<\H1F600, \H1F64F>>,
      <<\H1F680, \H1F6FF>>, <<\H2600, \H26FF>>, <<\H2700, \H27BF>> }

InSpecWideRange(code) == \E r \in SpecWideRanges : InRange(code, r[1], r[2])

\* <<condition, hundredths>> for a character, rules 1a .. 8 in order.
SpecRules(char) ==
    LET code  == char[1]
        ea    == char[2]
        cat   == char[3]
        ascii == code < 128
        upper == cat = "Lu"
    IN  << <<ascii /\ code \in {105, 108, 73, 33, 124, 39, 96, 46, 44, 58, 59}, 40>>,
           <<ascii /\ code \in {102, 106, 116, 114, 40, 41, 91, 93, 123, 125, 34, 47, 92, 45}, 60>>,
           <<ascii /\ code \in {109, 119, 77, 87, 64, 35, 37, 38, 42, 43, 61}, 130>>,
           <<ascii /\ cat = "Nd", 90>>,
           <<ascii /\ code = 32, 30>>,
           <<ascii /\ code = 9, 200>>,
           <<ascii /\ upper /\ code \notin {73, 77, 87}, 115>>,
           <<ascii, 100>>,
           <<ea \in {"F", "W"}, 200>>,
           <<ea = "H", 100>>,
           <<cat \in {"Mn", "Mc", "Me", "Cc", "Cf"}, 0>>,
           <<InSpecWideRange(code), 200>>,
           <<ea = "A" /\ InRange(code, \H0370, \H03FF) /\ upper, 110>>,
           <<ea = "A" /\ InRange(code, \H0400, \H04FF) /\ upper, 115>>,
           <<ea = "A" /\ InRange(code, \H0100, \H017F) /\ upper, 110>>,
           <<ea = "A", 100>>,
           <<InRange(code, \H0600, \H06FF), 80>>,
           <<InRange(code, \H0590, \H05FF), 90>>,
           <<InRange(code, \H0E00, \H0E7F), 90>>,
           <<InRange(code, \H0900, \H097F), 90>>,
           <<upper, 110>>,
           <<cat = "Nd", 90>> >>

\* The rules that match a character.
SpecMatches(char) == {k \in DOMAIN SpecRules(char) : SpecRules(char)[k][1]}

\* First match wins; 1.0 when no rule matches.
SpecWidth(char) ==
    IF SpecMatches(char) = {} THEN 100
    ELSE LET first == CHOOSE k \in SpecMatches(char) : \A j \in SpecMatches(char) : k <= j
         IN  SpecRules(char)[first][2]

\* The decimal value h/100 as a float.
Dec(h) == FDiv(h, 100)

\* The exact sum of the decimal widths of a text, in hundredths.
RECURSIVE ExactSum(_, _)
ExactSum(s, k) == IF k = 0 THEN 0 ELSE ExactSum(s, k - 1) + SpecWidth(s[k])

\* The results calc can return are n/10 for these n.
TenthsRange == 0..(20 * (MaxLen + 1))

\* The n with x = n/10.
TenthsOf(x) == CHOOSE n \in TenthsRange : FDiv(n, 10) = x

\* The texts with the characters of s in another order.
Reorderings(s) ==
    {[k \in DOMAIN s |-> s[f[k]]] :
        f \in {g \in [DOMAIN s -> DOMAIN s] : \A i, j \in DOMAIN s : g[i] = g[j] => i = j}}

\* s without its k-th character.
Without(s, k) == SubSeq(s, 1, k - 1) \o SubSeq(s, k + 1, Len(s))

IsLetter(char) == char[3] \in {"Lu", "Ll", "Lt", "Lm", "Lo"}

---------------------------------------------------------------------------
(* Claims *)

\* C1: when the body of calc returns, its result is the least multiple of
\* 0.1 that is not below the accumulated total: result = n/10 with
\* total_width <= result, and (n-1)/10 < total_width, so that the result
\* exceeds the total by less than 0.1.
C1_CeilingOfTotal ==
    \A t \in callers :
        pc[t] = "store" /\ text[t] # <<>> =>
            \E n \in TenthsRange :
                /\ result[t] = FDiv(n, 10)
                /\ FxLeq(total_width[t], result[t])
                /\ n = 0 \/ FxLess(FDiv(n - 1, 10), total_width[t])

\* C2: a text whose widths sum to an exact number of tenths returns that
\* sum unchanged, and any other sum returns the next tenth above it.
C2_NoSpuriousRoundUp ==
    \A t \in callers :
        pc[t] = "store" /\ text[t] # <<>> =>
            LET sum == ExactSum(text[t], Len(text[t]))
            IN  IF sum % 10 = 0
                THEN result[t] = FDiv(sum \div 10, 10)
                ELSE result[t] = FDiv((sum \div 10) + 1, 10)

\* The width the table gives a one-character ASCII text, in hundredths,
\* for the characters C3 names; upper is the value for "A".."Z" without
\* "I", "M", "W".
C3_Table(code, upper) ==
    IF code \in {105, 108, 73} THEN 40
    ELSE IF code \in {109, 77} THEN 130
    ELSE IF code = 32 THEN 30
    ELSE IF code = 9 THEN 200
    ELSE IF code = 53 THEN 90
    ELSE IF code = 97 THEN 100
    ELSE upper

C3_Named == {105, 108, 73, 109, 77, 32, 9, 53, 97} \cup ((65..90) \ {73, 77, 87})

\* C3 as stated: calc of a one-character ASCII text returns the table width,
\* 1.15 for an upper-case letter other than I, M, W.
C3_AsciiTableWidth ==
    \A t \in callers :
        pc[t] = "done" /\ Len(text[t]) = 1 /\ ord(text[t][1]) \in C3_Named =>
            ret[t] = Dec(C3_Table(ord(text[t][1]), 115))

\* C3 amended: calc of a one-character ASCII text returns the table width
\* rounded up to one decimal place: the named widths unchanged, and 1.2 for
\* an upper-case letter other than I, M, W.
C3_AsciiTableWidthRoundedUp ==
    \A t \in callers :
        pc[t] = "done" /\ Len(text[t]) = 1 /\ ord(text[t][1]) \in C3_Named =>
            ret[t] = Dec(C3_Table(ord(text[t][1]), 120))

\* calc("A") has returned.
C3_Witness ==
    pc[1] = "done" /\ text[1] = Str(<<65>>) /\ ret[1] = FDiv(12, 10)

\* The values _get_char_width can return.
C4_Widths == {Dec(h) : h \in {0, 30, 40, 60, 80, 90, 100, 110, 115, 130, 200}}

\* C4: every character gets one width of the fixed set, 1.0 when no rule
\* matches it; every result of calc is >= 0.0 and calc("") is 0.0.
C4_TotalNonNegative ==
    \A t \in callers :
        /\ (pc[t] = "loop" /\ idx[t] > 1) =>
              /\ char_width[t] \in C4_Widths
              /\ (SpecMatches(text[t][idx[t] - 1]) = {}) => (char_width[t] = FxInt(1))
        /\ pc[t] = "done" =>
              /\ FxLeq(Zero, ret[t])
              /\ (text[t] = <<>>) => (ret[t] = Zero)

\* U+00A0, which no rule matches, has been classified.
C4_Witness ==
    /\ pc[1] = "loop" /\ idx[1] = 2
    /\ text[1] = Str(<<\HA0>>)
    /\ SpecMatches(text[1][1]) = {}
    /\ char_width[1] = FxInt(1)

\* C5 as stated: a base letter followed by a mark of category Mn, whatever
\* the mark's East Asian Width, is as wide as the base letter alone.
C5_MarkAddsNothing ==
    \A t \in callers :
        (pc[t] = "done" /\ Len(text[t]) = 2 /\ IsLetter(text[t][1])
            /\ category_of(text[t][2]) = "Mn") =>
                ret[t] = calc_uncached(<<text[t][1]>>)

\* C5 amended: a mark of category Mn whose East Asian Width is not
\* Fullwidth, Wide or Halfwidth adds 0.0: a text is as wide as the text
\* without the mark, wherever the mark stands.
C5_NarrowMarkAddsNothing ==
    \A t \in callers :
        pc[t] = "done" =>
            \A k \in DOMAIN text[t] :
                (/\ ord(text[t][k]) >= 128
                 /\ category_of(text[t][k]) = "Mn"
                 /\ east_asian_width(text[t][k]) \notin {"F", "W", "H"})
                => ret[t] = calc_uncached(Without(text[t], k))

\* calc("a" + U+0301) has returned 1.0.
C5_Witness ==
    pc[1] = "done" /\ text[1] = Str(<<97, \H0301>>) /\ ret[1] = FxInt(1)

\* C6: whatever the cache holds, a call returns what the body computes for
\* its argument.
C6_CacheTransparent ==
    \A t \in callers : pc[t] = "done" => ret[t] = calc_uncached(text[t])

\* A call was answered from a full cache, with a result other than the one
\* computed last.
C6_Witness ==
    /\ pc[1] = "done"
    /\ Len(cache) = maxsize
    /\ text[1] \in cache_keys
    /\ ret[1] # result[1]

\* C7: with callers interleaved on a shared cache, every call returns the
\* width of its own argument and every cache entry holds the width of its
\* key.
C7_ConcurrentCallsCorrect ==
    /\ \A t \in callers : pc[t] = "done" => ret[t] = calc_uncached(text[t])
    /\ \A k \in DOMAIN cache : cache[k][2] = calc_uncached(cache[k][1])

\* Two threads computed the same text at the same time: one has filed its
\* result, the other is about to.
C7_Witness ==
    /\ callers = {1, 2}
    /\ pc[1] = "done" /\ pc[2] = "store"
    /\ text[1] = text[2] /\ text[1] # <<>>
    /\ text[1] \in cache_keys

\* C8: the width of every character is the width of the first rule of the
\* specification's list that matches it.
C8_FirstMatchWins ==
    \A t \in callers :
        pc[t] = "loop" /\ idx[t] > 1 =>
            LET c == text[t][idx[t] - 1]
                Is(h) == char_width[t] = Dec(h)
            IN  /\ Is(SpecWidth(c))
                /\ (c[1] >= 128 /\ c[2] = "H" /\ InRange(c[1], \HFF00, \HFFEF))
                     => Is(100)
                /\ (c[1] >= 128 /\ c[2] \notin {"F", "W", "H"}
                        /\ c[3] \in {"Mn", "Mc", "Me", "Cf"}
                        /\ InRange(c[1], \H0600, \H06FF))
                     => Is(0)
                /\ (c[1] >= 128 /\ c[2] = "A"
                        /\ c[3] \notin {"Mn", "Mc", "Me", "Cc", "Cf"}
                        /\ InRange(c[1], \H2600, \H26FF))
                     => Is(200)
                /\ (c[1] >= 128 /\ c[2] \notin {"F", "W", "H", "A"} /\ c[3] = "Lu"
                        /\ InRange(c[1], \H0400, \H04FF))
                     => Is(110)

\* U+0400, a Cyrillic upper-case letter that is not Ambiguous, got 1.1.
C8_Witness ==
    /\ pc[1] = "loop" /\ idx[1] = 2
    /\ text[1] = Str(<<\H0400>>)
    /\ east_asian_width(text[1][1]) = "N"
    /\ char_width[1] = FDiv(11, 10)

\* C9: calc returns the same value for every reordering of its text.
C9_OrderInvariant ==
    \A t \in callers :
        pc[t] = "done" =>
            \A p \in Reorderings(text[t]) : calc_uncached(p) = ret[t]

\* C10: for every split of a text into s and t,
\* max(calc(s), calc(t)) <= calc(s + t) <= calc(s) + calc(t).
C10_MonotoneSubadditive ==
    \A t \in callers :
        pc[t] = "done" =>
            \A k \in 0..Len(text[t]) :
                LET s  == SubSeq(text[t], 1, k)
                    u  == SubSeq(text[t], k + 1, Len(text[t]))
                    ns == TenthsOf(calc_uncached(s))
                    nu == TenthsOf(calc_uncached(u))
                    n  == TenthsOf(ret[t])
                IN  /\ ns <= n
                    /\ nu <= n
                    /\ n <= ns + nu

=============================================================================
